---- MODULE Spec2Model ----
(***************************************************************************)
(* RAGAgentService (rag_agent/services/rag_agent_service.py).              *)
(*                                                                         *)
(* Two parts of the service are modelled:                                  *)
(*   - process_request, cut at its two collaborator calls                  *)
(*     (retrieval_tool.search and client.chat.completions.create);         *)
(*   - the session map and its three operations, called from the threads   *)
(*     of the hosting server.                                              *)
(*                                                                         *)
(* Optional values (Python None) are sequences: <<>> is None and <<x>> is  *)
(* the value x.  Scores are rationals <<n, d>> (n/d); the similarity       *)
(* scores the retrieval collaborator returns are given in tenths.          *)
(***************************************************************************)
EXTENDS Integers, Sequences, FiniteSets, TLC

VARIABLES
    pc,                 \* position of the process_request call
    request,            \* the AgentRequest being processed (<<>>: not called yet)
    searchCalls,        \* calls made to retrieval_tool.search in this call
    completionCalls,    \* calls made to client.chat.completions.create
    retrieved_chunks,   \* local retrieved_chunks
    source_attribution, \* local source_attribution (a set)
    response,           \* the AgentResponse returned (<<>>: none)
    raised,             \* the exception propagated to the caller (<<>>: none)
    validation_result,  \* the validator's result for the response (<<>>: none)
    log,                \* logger records written by the call
    sessions,           \* self.sessions
    issued,             \* the uuid4 values generated so far
    thread              \* each server thread's session call in progress

requestVars == <<pc, request, searchCalls, completionCalls, retrieved_chunks,
                 source_attribution, response, raised, validation_result, log>>
sessionVars == <<sessions, issued, thread>>
vars == <<pc, request, searchCalls, completionCalls, retrieved_chunks,
          source_attribution, response, raised, validation_result, log, sessions, issued, thread>>

(***************************************************************************)
(* Bounds                                                                  *)
(***************************************************************************)
MaxTopK == 2
MaxSessions == 2
NumThreads == 2

(***************************************************************************)
(* Optional values and Python truthiness                                   *)
(***************************************************************************)
NoneVal == <<>>
Some(x) == <<x>>

\* truthiness of an optional string: None and "" are falsy
TruthyStr(o) == o # <<>> /\ o[1] # ""
\* truthiness of an optional dict: None and {} are falsy
TruthyDict(o) == o # <<>> /\ DOMAIN o[1] # {}

(***************************************************************************)
(* Request, chunk and score domains                                        *)
(***************************************************************************)
GENERAL == "general"
CHAPTER_SPECIFIC == "chapter_specific"
USER_CONTEXT == "user_context"
QueryType == {GENERAL, CHAPTER_SPECIFIC, USER_CONTEXT}

EmptyDict == [k \in {} |-> ""]
FilterDicts ==
    { EmptyDict,
      [k \in {"chapter"} |-> "ch2"],
      [k \in {"section"} |-> "s1"],
      [k \in {"chapter", "section"} |-> IF k = "chapter" THEN "ch2" ELSE "s1"] }

AgentRequest ==
    [ query : {"q"},
      query_type : QueryType,
      chapter_filter : {NoneVal, Some(""), Some("ch1")},
      filters : {NoneVal} \cup {Some(d) : d \in FilterDicts},
      top_k : 1..MaxTopK,
      user_context : {NoneVal, Some(""), Some("notes")},
      conversation_id : {NoneVal, Some("c1")} ]

\* similarity scores in tenths: 0.0, 0.3, 1.0
SimilarityScores == {0, 3, 10}
RawItems == [ source_url : {"u1", "u2"}, content : {"text"},
              similarity_score : SimilarityScores ]

SeqsUpTo(S, n) == UNION { [1..m -> S] : m \in 0..n }

\* what retrieval_tool.search may return for a call asking for top_k records
SearchResults(top_k) == SeqsUpTo(RawItems, top_k)

CompletionTexts == {"", "answer"}

Rat(n, d) == <<n, d>>
RatEq(a, b) == a[1] * b[2] = b[1] * a[2]
RatLeq(a, b) == a[1] * b[2] <= b[1] * a[2]

(***************************************************************************)
(* process_request: the pure parts                                         *)
(***************************************************************************)

\* conversation_id = request.conversation_id or f"conv_{timestamp}"
ConversationId(req) ==
    IF TruthyStr(req.conversation_id) THEN req.conversation_id[1] ELSE "conv_ts"

\* the branches with the USER_CONTEXT test left out
RetrievalBranchNoUserContext(req) ==
    IF req.query_type = GENERAL THEN "general"
    ELSE IF req.query_type = CHAPTER_SPECIFIC /\ TruthyStr(req.chapter_filter)
         THEN "chapter"
    ELSE "default"

\* the if / elif / elif / else on request.query_type
RetrievalBranch(req) ==
    IF req.query_type = GENERAL THEN "general"
    ELSE IF req.query_type = CHAPTER_SPECIFIC /\ TruthyStr(req.chapter_filter)
         THEN "chapter"
    ELSE IF req.query_type = USER_CONTEXT THEN "user_context"
    ELSE "default"

\* dict.update: the entries of e overwrite those of d
Update(d, e) ==
    [k \in DOMAIN d \cup DOMAIN e |-> IF k \in DOMAIN e THEN e[k] ELSE d[k]]

\* the merge in the other order: chapter_filter overwrites request.filters
ChapterFiltersChapterWins(req) ==
    LET base == [k \in {"chapter"} |-> req.chapter_filter[1]]
    IN  IF TruthyDict(req.filters) THEN Update(req.filters[1], base) ELSE base

\* filters = {"chapter": request.chapter_filter}; if request.filters: update
ChapterFilters(req) ==
    LET base == [k \in {"chapter"} |-> req.chapter_filter[1]]
    IN  IF TruthyDict(req.filters) THEN Update(base, req.filters[1]) ELSE base

\* the request's filters replaced by an empty mapping
GeneralFiltersDropped(req) == EmptyDict

\* filters = request.filters or {}
GeneralFilters(req) ==
    IF TruthyDict(req.filters) THEN req.filters[1] ELSE EmptyDict

\* the default branch passes the request's filters as the GENERAL branch does
SearchArgsDefaultFiltered(req) ==
    LET b == RetrievalBranch(req)
    IN  [ query |-> req.query,
          filters |-> IF b = "chapter" THEN Some(ChapterFilters(req))
                      ELSE Some(GeneralFilters(req)),
          top_k |-> req.top_k ]

\* the arguments of retrieval_tool.search in the branch taken; the default
\* branch passes no filters argument
SearchArgs(req) ==
    LET b == RetrievalBranch(req)
    IN  [ query |-> req.query,
          filters |-> IF b = "general" THEN Some(GeneralFilters(req))
                      ELSE IF b = "chapter" THEN Some(ChapterFilters(req))
                      ELSE NoneVal,
          top_k |-> req.top_k ]

\* the conversion loop: one RetrievedChunk per raw item, in order
RetrievedChunk(item) ==
    [ source_url |-> item.source_url,
      content |-> item.content,
      similarity_score |-> item.similarity_score ]

RECURSIVE ConvertChunks(_)
ConvertChunks(data) ==
    IF data = <<>> THEN <<>>
    ELSE Append(ConvertChunks(SubSeq(data, 1, Len(data) - 1)),
                RetrievedChunk(data[Len(data)]))

\* the add placed after the loop: only the last item's source_url is kept
SourceAttributionLastOnly(data) ==
    IF data = <<>> THEN {} ELSE {data[Len(data)].source_url}

\* the conversion loop: source_attribution.add(item["source_url"])
RECURSIVE SourceAttribution(_)
SourceAttribution(data) ==
    IF data = <<>> THEN {}
    ELSE SourceAttribution(SubSeq(data, 1, Len(data) - 1))
             \cup {data[Len(data)].source_url}

Range(s) == { s[i] : i \in DOMAIN s }

\* list(source_attribution): the set's elements once each, in iteration order
ListOfSet(S) == { s \in [1..Cardinality(S) -> S] : Range(s) = S }

\* "\n\n".join(f"Source: {url}\nContent: {content}" for chunk in chunks)
RECURSIVE JoinChunks(_)
JoinChunks(chunks) ==
    LET n == Len(chunks)
        piece == <<"Source: ", chunks[n].source_url,
                   "\nContent: ", chunks[n].content>>
    IN  IF n = 1 THEN piece
        ELSE JoinChunks(SubSeq(chunks, 1, n - 1)) \o <<"\n\n">> \o piece

\* user_context is used whatever the query type
ContextTextAnyType(req, chunks) ==
    IF chunks # <<>> THEN JoinChunks(chunks)
    ELSE IF TruthyStr(req.user_context)
         THEN <<"User Context: ", req.user_context[1]>>
    ELSE <<>>

ContextText(req, chunks) ==
    IF chunks # <<>> THEN JoinChunks(chunks)
    ELSE IF req.query_type = USER_CONTEXT /\ TruthyStr(req.user_context)
         THEN <<"User Context: ", req.user_context[1]>>
    ELSE <<>>

\* the two prompt templates
Prompt(req, context_text) ==
    IF context_text # <<>>
    THEN [ template |-> "grounded", context |-> context_text, question |-> req.query ]
    ELSE [ template |-> "general", context |-> <<>>, question |-> req.query ]

MAX_RESPONSE_TOKENS == 1000

\* the arguments of client.chat.completions.create
CompletionArgs(req, chunks) ==
    [ system |-> "AGENT_INSTRUCTIONS",
      user |-> Prompt(req, ContextText(req, chunks)),
      max_tokens |-> MAX_RESPONSE_TOKENS,
      temperature |-> Rat(3, 10) ]

RECURSIVE SumSimilarity(_)
SumSimilarity(chunks) ==
    IF chunks = <<>> THEN 0
    ELSE chunks[1].similarity_score + SumSimilarity(Tail(chunks))

\* the sum of the similarities in place of their mean
ConfidenceScoreSum(chunks) ==
    IF chunks # <<>>
    THEN LET total == Rat(SumSimilarity(chunks), 10)
         IN  IF RatLeq(Rat(1, 1), total) THEN Rat(1, 1) ELSE total
    ELSE Rat(3, 10)

\* confidence_score: min(1.0, mean similarity) with chunks, 0.3 without
ConfidenceScore(chunks) ==
    IF chunks # <<>>
    THEN LET avg == Rat(SumSimilarity(chunks), 10 * Len(chunks))
         IN  IF RatLeq(Rat(1, 1), avg) THEN Rat(1, 1) ELSE avg
    ELSE Rat(3, 10)

\* the USER_CONTEXT disjunct left out
HasSufficientContextChunksOnly(req, chunks) ==
    Len(chunks) > 0

HasSufficientContext(req, chunks) ==
    Len(chunks) > 0 \/ req.query_type = USER_CONTEXT

\* AgentResponse(...)
AgentResponse(req, ai_response, chunks, attribution) ==
    [ response |-> ai_response,
      query |-> req.query,
      retrieved_chunks |-> chunks,
      source_attribution |-> attribution,
      confidence_score |-> ConfidenceScore(chunks),
      query_type |-> req.query_type,
      conversation_id |-> ConversationId(req),
      has_sufficient_context |-> HasSufficientContext(req, chunks),
      hallucination_prevention_applied |-> TRUE ]

\* ResponseValidator.validate_agent_response: a flag and a list of issues
ValidateAgentResponse(resp) ==
    LET issues ==
            (IF resp.response = "" THEN {"empty response"} ELSE {})
            \cup (IF resp.retrieved_chunks = <<>>
                     /\ ~RatLeq(resp.confidence_score, Rat(1, 2))
                  THEN {"no chunks but high confidence"} ELSE {})
            \cup (IF ~(RatLeq(Rat(0, 1), resp.confidence_score)
                       /\ RatLeq(resp.confidence_score, Rat(1, 1)))
                  THEN {"confidence out of range"} ELSE {})
    IN  [ is_valid |-> issues = {}, issues |-> issues ]

\* an invalid response is refused instead of returned
AfterValidationBlocking(agent_response, result) ==
    IF result.is_valid
    THEN [ pc |-> "returned", response |-> Some(agent_response),
           raised |-> NoneVal, log |-> <<>> ]
    ELSE [ pc |-> "raised", response |-> NoneVal,
           raised |-> Some("validation error"),
           log |-> <<[level |-> "error", msg |-> "validation error"]>> ]

\* after validation: warn when invalid, then return agent_response
AfterValidation(agent_response, result) ==
    [ pc |-> "returned",
      response |-> Some(agent_response),
      raised |-> NoneVal,
      log |-> IF ~result.is_valid
              THEN <<[level |-> "warning", msg |-> "validation issues"]>>
              ELSE <<>> ]

\* the exception is swallowed and an apology is returned in its place
ExceptHandlerSwallow(e) ==
    [ pc |-> "returned",
      response |-> Some([response |-> "sorry"]),
      raised |-> NoneVal,
      log |-> <<[level |-> "error", msg |-> e]>> ]

\* except Exception as e: logger.error(...); raise
ExceptHandler(e) ==
    [ pc |-> "raised",
      response |-> NoneVal,
      raised |-> Some(e),
      log |-> <<[level |-> "error", msg |-> e]>> ]

(***************************************************************************)
(* process_request: the steps between its collaborator calls               *)
(***************************************************************************)
Threads == 1..NumThreads
Uuids == 1..MaxSessions

IdleThread == [ op |-> "none", pc |-> "idle", sid |-> 0,
                ret |-> NoneVal, raised |-> NoneVal ]

Init ==
    /\ pc = "idle"
    /\ request = NoneVal
    /\ searchCalls = <<>>
    /\ completionCalls = <<>>
    /\ retrieved_chunks = <<>>
    /\ source_attribution = {}
    /\ response = NoneVal
    /\ raised = NoneVal
    /\ validation_result = NoneVal
    /\ log = <<>>
    /\ sessions = EmptyDict
    /\ issued = {}
    /\ thread = [t \in Threads |-> IdleThread]

Call(args) == [ args |-> args, status |-> "pending" ]
Settle(calls, status) == [calls EXCEPT ![Len(calls)].status = status]

\* a call of process_request starts: the locals are fresh
Enter(req) ==
    /\ pc = "idle"
    /\ request' = req
    /\ response' = NoneVal
    /\ raised' = NoneVal
    /\ validation_result' = NoneVal
    /\ log' = <<>>

\* from the conversion loop to the call of the completion collaborator
ToCompletion(req, data) ==
    /\ retrieved_chunks' = ConvertChunks(data)
    /\ source_attribution' = SourceAttribution(data)
    /\ completionCalls' = <<Call(CompletionArgs(req, ConvertChunks(data)))>>
    /\ pc' = "completion"

\* the completion collaborator is called, with no context, before retrieval
\* has answered
CallSearchCompletionFirst ==
    \E req \in AgentRequest :
        /\ Enter(req)
        /\ RetrievalBranch(req) # "user_context"
        /\ searchCalls' = <<Call(SearchArgs(req))>>
        /\ completionCalls' = <<Call(CompletionArgs(req, <<>>))>>
        /\ retrieved_chunks' = <<>>
        /\ source_attribution' = {}
        /\ pc' = "search"
        /\ UNCHANGED sessionVars

\* entry, in a branch that calls retrieval_tool.search
CallSearch ==
    \E req \in AgentRequest :
        /\ Enter(req)
        /\ RetrievalBranch(req) # "user_context"
        /\ searchCalls' = <<Call(SearchArgs(req))>>
        /\ completionCalls' = <<>>
        /\ retrieved_chunks' = <<>>
        /\ source_attribution' = {}
        /\ pc' = "search"
        /\ UNCHANGED sessionVars

\* entry, in the USER_CONTEXT branch: retrieved_data = []
SkipSearch ==
    \E req \in AgentRequest :
        /\ Enter(req)
        /\ RetrievalBranch(req) = "user_context"
        /\ searchCalls' = <<>>
        /\ ToCompletion(req, <<>>)
        /\ UNCHANGED sessionVars

\* retrieval_tool.search returns
SearchReturns ==
    /\ pc = "search"
    /\ \E data \in SearchResults(request.top_k) :
        /\ searchCalls' = Settle(searchCalls, "ok")
        /\ ToCompletion(request, data)
    /\ UNCHANGED <<request, response, raised, validation_result, log>>
    /\ UNCHANGED sessionVars

\* retrieval_tool.search raises
SearchFails ==
    /\ pc = "search"
    /\ searchCalls' = Settle(searchCalls, "failed")
    /\ LET out == ExceptHandler("retrieval error")
       IN  /\ pc' = out.pc
           /\ response' = out.response
           /\ raised' = out.raised
           /\ log' = log \o out.log
    /\ UNCHANGED <<request, completionCalls, retrieved_chunks,
                   source_attribution, validation_result>>
    /\ UNCHANGED sessionVars

\* client.chat.completions.create returns: score, assemble, validate, return
CompletionReturns ==
    /\ pc = "completion"
    /\ \E ai_response \in CompletionTexts,
          attribution \in ListOfSet(source_attribution) :
        LET agent_response == AgentResponse(request, ai_response,
                                            retrieved_chunks, attribution)
            result == ValidateAgentResponse(agent_response)
            out == AfterValidation(agent_response, result)
        IN  /\ completionCalls' = Settle(completionCalls, "ok")
            /\ validation_result' = Some(result)
            /\ pc' = out.pc
            /\ response' = out.response
            /\ raised' = out.raised
            /\ log' = log \o out.log
    /\ UNCHANGED <<request, searchCalls, retrieved_chunks, source_attribution>>
    /\ UNCHANGED sessionVars

\* client.chat.completions.create raises
CompletionFails ==
    /\ pc = "completion"
    /\ completionCalls' = Settle(completionCalls, "failed")
    /\ LET out == ExceptHandler("completion error")
       IN  /\ pc' = out.pc
           /\ response' = out.response
           /\ raised' = out.raised
           /\ log' = log \o out.log
    /\ UNCHANGED <<request, searchCalls, retrieved_chunks,
                   source_attribution, validation_result>>
    /\ UNCHANGED sessionVars

Next ==
    \/ CallSearch
    \/ SkipSearch
    \/ SearchReturns
    \/ SearchFails
    \/ CompletionReturns
    \/ CompletionFails

Spec == Init /\ [][Next]_vars

(***************************************************************************)
(* Properties of process_request                                           *)
(***************************************************************************)
Called == pc # "idle"
Returned == pc = "returned"
Resp == response[1]
FilterKeys(req) == IF req.filters = NoneVal THEN {} ELSE DOMAIN req.filters[1]
Failed(calls) == \E i \in DOMAIN calls : calls[i].status = "failed"

\* C1: a USER_CONTEXT request, whatever its other fields, never has a call of
\* the retrieval collaborator's search, at any point of process_request, and
\* its response carries no retrieved chunk.
C1_UserContextNeverSearches ==
    (Called /\ request.query_type = USER_CONTEXT) =>
        /\ searchCalls = <<>>
        /\ pc # "search"
        /\ retrieved_chunks = <<>>
        /\ (Returned => Resp.retrieved_chunks = <<>>)

C1_Witness ==
    /\ Returned
    /\ request.query_type = USER_CONTEXT
    /\ TruthyDict(request.filters)
    /\ TruthyStr(request.chapter_filter)
    /\ completionCalls # <<>>

\* the filter mapping of a chapter search: {chapter: chapter_filter}
\* overwritten key by key by request.filters
IsChapterMerge(req, call) ==
    /\ call.args.filters # NoneVal
    /\ LET m == call.args.filters[1]
       IN  /\ DOMAIN m = {"chapter"} \cup FilterKeys(req)
           /\ \A k \in FilterKeys(req) : m[k] = req.filters[1][k]
           /\ ("chapter" \notin FilterKeys(req) => m["chapter"] = req.chapter_filter[1])

\* C2 as stated: every CHAPTER_SPECIFIC request whose chapter_filter is set
\* (not None) searches with {chapter: chapter_filter} overwritten by
\* request.filters.
C2_Original ==
    (Called /\ request.query_type = CHAPTER_SPECIFIC
            /\ request.chapter_filter # NoneVal) =>
        /\ Len(searchCalls) = 1
        /\ IsChapterMerge(request, searchCalls[1])

\* C2 amended: every CHAPTER_SPECIFIC request whose chapter_filter is a
\* non-empty string searches with {chapter: chapter_filter} overwritten key
\* by key by request.filters; an empty chapter_filter counts as absent.
C2_ChapterFilterMerge ==
    (Called /\ request.query_type = CHAPTER_SPECIFIC
            /\ TruthyStr(request.chapter_filter)) =>
        /\ Len(searchCalls) = 1
        /\ IsChapterMerge(request, searchCalls[1])

C2_Witness ==
    /\ Called
    /\ request.query_type = CHAPTER_SPECIFIC
    /\ request.chapter_filter = Some("ch1")
    /\ "chapter" \in FilterKeys(request)
    /\ "section" \in FilterKeys(request)
    /\ searchCalls[1].args.filters[1]["chapter"] = "ch2"

InUnitInterval(r) == RatLeq(Rat(0, 1), r) /\ RatLeq(r, Rat(1, 1))

\* the mean of the chunks' similarity scores (tenths), capped at 1
IsCappedMean(r, chunks) ==
    LET total == SumSimilarity(chunks)
        n == Len(chunks)
    IN  IF total >= 10 * n THEN RatEq(r, Rat(1, 1))
        ELSE r[1] * 10 * n = total * r[2]

\* C3 as stated: the confidence of a successful call is in [0,1] and is 0.3
\* if and only if no chunk was retrieved.
C3_Original ==
    Returned =>
        /\ InUnitInterval(Resp.confidence_score)
        /\ (RatEq(Resp.confidence_score, Rat(3, 10)) <=> Resp.retrieved_chunks = <<>>)

\* C3 amended: the confidence of a successful call is in [0,1]; it is 0.3
\* whenever no chunk was retrieved, and with chunks it is the mean of their
\* similarity scores capped at 1.0 (which may itself be 0.3).
C3_ConfidenceScore ==
    Returned =>
        /\ InUnitInterval(Resp.confidence_score)
        /\ (Resp.retrieved_chunks = <<>> => RatEq(Resp.confidence_score, Rat(3, 10)))
        /\ (Resp.retrieved_chunks # <<>> =>
                IsCappedMean(Resp.confidence_score, Resp.retrieved_chunks))

C3_Witness ==
    /\ Returned
    /\ Len(Resp.retrieved_chunks) = 2
    /\ Resp.retrieved_chunks[1].similarity_score = 10
    /\ Resp.retrieved_chunks[2].similarity_score = 3
    /\ RatEq(Resp.confidence_score, Rat(13, 20))

\* C4: the source_attribution of a successful call lists exactly the distinct
\* source_url values of its retrieved chunks, each once; so it is no longer
\* than the list of chunks and is empty when there is no chunk.
C4_SourceAttribution ==
    Returned =>
        LET a == Resp.source_attribution
            chunks == Resp.retrieved_chunks
        IN  /\ Range(a) = { chunks[i].source_url : i \in DOMAIN chunks }
            /\ \A i, j \in DOMAIN a : a[i] = a[j] => i = j
            /\ Len(a) <= Len(chunks)
            /\ (chunks = <<>> => a = <<>>)

C4_Witness ==
    /\ Returned
    /\ Len(Resp.retrieved_chunks) = 2
    /\ Resp.retrieved_chunks[1].source_url = "u1"
    /\ Resp.retrieved_chunks[2].source_url = "u2"
    /\ Resp.source_attribution = <<"u2", "u1">>

\* C5: when the retrieval call or the completion call fails, the call of
\* process_request ends by raising that error: no response is returned, the
\* failed collaborator was called once only, and no other collaborator call
\* follows the failure.
C5_FailurePropagates ==
    /\ Failed(searchCalls) =>
        /\ pc = "raised"
        /\ raised = Some("retrieval error")
        /\ response = NoneVal
        /\ Len(searchCalls) = 1
        /\ completionCalls = <<>>
    /\ Failed(completionCalls) =>
        /\ pc = "raised"
        /\ raised = Some("completion error")
        /\ response = NoneVal
        /\ Len(completionCalls) = 1
        /\ Len(searchCalls) <= 1
        /\ ~Failed(searchCalls)

C5_Witness ==
    /\ pc = "raised"
    /\ Failed(completionCalls)
    /\ searchCalls # <<>>
    /\ retrieved_chunks # <<>>

\* C9: when the collaborator calls made have succeeded, process_request
\* returns the response it assembled, whatever the validator found: an
\* invalid result adds one warning to the log and nothing else.
C9_ValidationAdvisory ==
    (completionCalls # <<>> /\ completionCalls[1].status = "ok") =>
        /\ Returned
        /\ raised = NoneVal
        /\ response # NoneVal
        /\ Resp = AgentResponse(request, Resp.response, retrieved_chunks,
                                Resp.source_attribution)
        /\ Resp.response \in CompletionTexts
        /\ validation_result = Some(ValidateAgentResponse(Resp))
        /\ log = IF validation_result[1].is_valid THEN <<>>
                 ELSE <<[level |-> "warning", msg |-> "validation issues"]>>

C9_Witness ==
    /\ Returned
    /\ ~validation_result[1].is_valid
    /\ response # NoneVal
    /\ Resp.retrieved_chunks # <<>>

\* C10: in the response of a successful call has_sufficient_context is true
\* if and only if a chunk was retrieved or the request is USER_CONTEXT, and
\* hallucination_prevention_applied is true.
C10_SufficientContext ==
    Returned =>
        /\ Resp.has_sufficient_context <=>
              (Len(Resp.retrieved_chunks) >= 1 \/ request.query_type = USER_CONTEXT)
        /\ Resp.hallucination_prevention_applied = TRUE

C10_Witness ==
    /\ Returned
    /\ request.query_type = GENERAL
    /\ Resp.retrieved_chunks = <<>>
    /\ Resp.has_sufficient_context = FALSE
    /\ Resp.source_attribution = <<>>
    /\ RatEq(Resp.confidence_score, Rat(3, 10))

\* the mapping a request's filters stand for: None is the empty mapping
FiltersOf(req) == [k \in FilterKeys(req) |-> req.filters[1][k]]

\* C11: a GENERAL request has exactly one call of retrieval, made with the
\* request's query, its top_k and its filters as they are (the empty mapping
\* when it has none): no key added, removed or changed.
C11_GeneralSearchUnmodified ==
    (Called /\ request.query_type = GENERAL) =>
        /\ Len(searchCalls) = 1
        /\ searchCalls[1].args.query = request.query
        /\ searchCalls[1].args.top_k = request.top_k
        /\ searchCalls[1].args.filters # NoneVal
        /\ LET m == searchCalls[1].args.filters[1]
           IN  /\ DOMAIN m = FilterKeys(request)
               /\ \A k \in DOMAIN m : m[k] = request.filters[1][k]

C11_Witness ==
    /\ Returned
    /\ request.query_type = GENERAL
    /\ request.top_k = 2
    /\ request.chapter_filter = Some("ch1")
    /\ FilterKeys(request) = {"chapter", "section"}
    /\ searchCalls[1].args.filters = Some(FiltersOf(request))
    /\ searchCalls[1].status = "ok"

\* C12: the steps of one process_request are in order.  The completion
\* collaborator is called once at most, and only when retrieval has returned
\* successfully or was skipped for USER_CONTEXT, with the prompt assembled
\* from the chunks retrieved; the validator has run only when the completion
\* call has returned; when retrieval failed the completion collaborator is
\* not called.
C12_PipelineOrder ==
    /\ Len(completionCalls) <= 1
    /\ completionCalls # <<>> =>
        /\ \/ searchCalls = <<>> /\ request.query_type = USER_CONTEXT
           \/ Len(searchCalls) = 1 /\ searchCalls[1].status = "ok"
        /\ pc \in {"completion", "returned", "raised"}
        /\ completionCalls[1].args.user =
               Prompt(request, ContextText(request, retrieved_chunks))
    /\ (searchCalls # <<>> /\ searchCalls[1].status # "ok") =>
        /\ completionCalls = <<>>
        /\ retrieved_chunks = <<>>
    /\ validation_result # NoneVal =>
        /\ completionCalls # <<>>
        /\ completionCalls[1].status = "ok"
    /\ (completionCalls # <<>> /\ completionCalls[1].status # "ok") =>
        /\ validation_result = NoneVal
        /\ response = NoneVal

C12_Witness ==
    /\ Returned
    /\ Len(searchCalls) = 1 /\ searchCalls[1].status = "ok"
    /\ Len(retrieved_chunks) = 2
    /\ Len(completionCalls) = 1 /\ completionCalls[1].status = "ok"
    /\ completionCalls[1].args.user.template = "grounded"
    /\ validation_result # NoneVal

\* the chunks written one after the other as "Source: {source_url}\nContent:
\* {content}", with a blank line between two of them
ChunkConcatenation(chunks) ==
    [i \in 1..(5 * Len(chunks) - 1) |->
        LET chunk == chunks[((i - 1) \div 5) + 1]
            part == (i - 1) % 5
        IN  CASE part = 0 -> "Source: "
              [] part = 1 -> chunk.source_url
              [] part = 2 -> "\nContent: "
              [] part = 3 -> chunk.content
              [] part = 4 -> "\n\n"]

\* the prompt of the completion call is the grounded one with this context
\* text when the text is not empty, and the general one otherwise
PromptIsFor(call, text) ==
    /\ call.args.user.context = text
    /\ call.args.user.template = IF text # <<>> THEN "grounded" ELSE "general"
    /\ call.args.user.question = request.query

\* C13 as stated: the context text is the chunk concatenation when a chunk
\* was retrieved, "User Context: {user_context}" for a USER_CONTEXT request
\* whose user_context is supplied (not None), and empty otherwise; the prompt
\* is the grounded one exactly when that text is not empty.
C13_Original ==
    completionCalls # <<>> =>
        PromptIsFor(completionCalls[1],
            IF retrieved_chunks # <<>> THEN ChunkConcatenation(retrieved_chunks)
            ELSE IF request.query_type = USER_CONTEXT
                    /\ request.user_context # NoneVal
                 THEN <<"User Context: ", request.user_context[1]>>
            ELSE <<>>)

\* C13 amended: the context text is the chunk concatenation when a chunk was
\* retrieved, "User Context: {user_context}" for a USER_CONTEXT request whose
\* user_context is a non-empty string, and empty otherwise (USER_CONTEXT with
\* no user_context or with an empty one included); the prompt is the grounded
\* one exactly when that text is not empty.
C13_PromptSelection ==
    completionCalls # <<>> =>
        PromptIsFor(completionCalls[1],
            IF retrieved_chunks # <<>> THEN ChunkConcatenation(retrieved_chunks)
            ELSE IF request.query_type = USER_CONTEXT
                    /\ TruthyStr(request.user_context)
                 THEN <<"User Context: ", request.user_context[1]>>
            ELSE <<>>)

C13_Witness ==
    /\ pc = "completion"
    /\ request.query_type = USER_CONTEXT
    /\ request.user_context = Some("notes")
    /\ searchCalls = <<>>
    /\ completionCalls[1].args.user.template = "grounded"
    /\ completionCalls[1].args.user.context = <<"User Context: ", "notes">>

\* C14: a request whose query_type is not USER_CONTEXT has exactly one call of
\* retrieval.  For a CHAPTER_SPECIFIC request with no chapter_filter (None,
\* or the empty string) that call has the request's query and top_k and no
\* filters argument, whatever request.filters holds.
C14_DefaultBranchSearches ==
    (Called /\ request.query_type # USER_CONTEXT) =>
        /\ Len(searchCalls) = 1
        /\ searchCalls[1].args.query = request.query
        /\ searchCalls[1].args.top_k = request.top_k
        /\ (request.query_type = CHAPTER_SPECIFIC
                /\ request.chapter_filter \in {NoneVal, Some("")}) =>
               searchCalls[1].args.filters = NoneVal

C14_Witness ==
    /\ Returned
    /\ request.query_type = CHAPTER_SPECIFIC
    /\ request.chapter_filter = NoneVal
    /\ FilterKeys(request) = {"chapter", "section"}
    /\ Len(searchCalls) = 1
    /\ searchCalls[1].args.filters = NoneVal
    /\ searchCalls[1].status = "ok"
    /\ retrieved_chunks # <<>>

(***************************************************************************)
(* The session map.  Each server thread makes one session call after the   *)
(* other; a step is one access to self.sessions.  create and get access    *)
(* the map once; clear accesses it twice (the membership test, then del).  *)
(***************************************************************************)

\* uuid4 values already handed out may be handed out again
CollidingUuids(used) == Uuids

\* uuid.uuid4(): a value never generated before
FreshUuids(used) == Uuids \ used

\* ConversationSession(id=session_id)
ConversationSession(id) == [ id |-> id ]

\* self.sessions[session_id] = session
Store(map, sid, session) ==
    [k \in DOMAIN map \cup {sid} |-> IF k = sid THEN session ELSE map[k]]

\* every entry is dropped, not only session_id
RemoveAll(map, sid) == EmptyDict

\* del self.sessions[session_id]
Remove(map, sid) == [k \in DOMAIN map \ {sid} |-> map[k]]

Ready(t) == thread[t].pc \in {"idle", "done"}

Finish(t, op, sid, ret, exc) ==
    thread' = [thread EXCEPT ![t] =
                  [ op |-> op, pc |-> "done", sid |-> sid,
                    ret |-> ret, raised |-> exc ]]

create_conversation_session(t) ==
    /\ Ready(t)
    /\ \E session_id \in FreshUuids(issued) :
        LET session == ConversationSession(session_id)
        IN  /\ issued' = issued \cup {session_id}
            /\ sessions' = Store(sessions, session_id, session)
            /\ Finish(t, "create", session_id, Some(session), NoneVal)
    /\ UNCHANGED requestVars

get_conversation_session(t) ==
    /\ Ready(t)
    /\ \E session_id \in Uuids :
        Finish(t, "get", session_id,
               IF session_id \in DOMAIN sessions
               THEN Some(sessions[session_id]) ELSE NoneVal,
               NoneVal)
    /\ UNCHANGED <<sessions, issued>>
    /\ UNCHANGED requestVars

\* clear_conversation, up to the test "session_id in self.sessions"
clear_conversation_test(t) ==
    /\ Ready(t)
    /\ \E session_id \in Uuids :
        IF session_id \in DOMAIN sessions
        THEN thread' = [thread EXCEPT ![t] =
                           [ op |-> "clear", pc |-> "del", sid |-> session_id,
                             ret |-> NoneVal, raised |-> NoneVal ]]
        ELSE Finish(t, "clear", session_id, Some(FALSE), NoneVal)
    /\ UNCHANGED <<sessions, issued>>
    /\ UNCHANGED requestVars

\* clear_conversation, from "del self.sessions[session_id]" on; del raises
\* KeyError when the key is no longer there
clear_conversation_del(t) ==
    /\ thread[t].pc = "del"
    /\ LET session_id == thread[t].sid
       IN  IF session_id \in DOMAIN sessions
           THEN /\ sessions' = Remove(sessions, session_id)
                /\ Finish(t, "clear", session_id, Some(TRUE), NoneVal)
           ELSE /\ sessions' = sessions
                /\ Finish(t, "clear", session_id, NoneVal, Some("KeyError"))
    /\ UNCHANGED issued
    /\ UNCHANGED requestVars

SessionNext ==
    \E t \in Threads :
        \/ create_conversation_session(t)
        \/ get_conversation_session(t)
        \/ clear_conversation_test(t)
        \/ clear_conversation_del(t)

\* the session calls of the server's threads, interleaved at every access
SessionSpec == Init /\ [][SessionNext]_vars

\* no other thread is inside a call
Alone(t) == \A u \in Threads \ {t} : thread[u].pc # "del"

SerialNext ==
    \E t \in Threads :
        \/ Alone(t) /\ create_conversation_session(t)
        \/ Alone(t) /\ get_conversation_session(t)
        \/ Alone(t) /\ clear_conversation_test(t)
        \/ Alone(t) /\ clear_conversation_del(t)

\* the session calls made one after the other
SerialSpec == Init /\ [][SerialNext]_vars

(***************************************************************************)
(* Properties of the session map                                           *)
(***************************************************************************)
Stepped(t) == thread'[t] # thread[t]
Found(map, sid) == IF sid \in DOMAIN map THEN Some(map[sid]) ELSE NoneVal

\* C6 as stated: under every interleaving of session calls each call behaves
\* as if it ran atomically: no call raises, and a clear_conversation that was
\* started on an id then in the map either removes it and returns true or,
\* when another clear removed it first, returns false.
C6_ClearLinearizable ==
    \A t \in Threads :
        /\ thread[t].raised = NoneVal
        /\ (thread[t].op = "clear" /\ thread[t].pc = "done") =>
               thread[t].ret \in {Some(TRUE), Some(FALSE)}

\* C7: create_conversation_session stores its session under an id that was
\* not in the map and changes no other entry; an entry stays as it is until
\* a clear_conversation of its id removes it; get_conversation_session
\* leaves the map as it is and returns the entry stored under the id asked
\* for, whose id is that id.  So every get of a created id before a clear of
\* it returns the created session, and two gets without a clear between them
\* return equal results.
C7_CreateGetRoundTrip ==
    [][ /\ \A t \in Threads :
            LET now == thread'[t]
            IN  /\ (Stepped(t) /\ now.op = "create") =>
                    /\ now.sid \notin DOMAIN sessions
                    /\ DOMAIN sessions' = DOMAIN sessions \cup {now.sid}
                    /\ now.ret = Some(sessions'[now.sid])
                    /\ now.ret[1].id = now.sid
                    /\ now.raised = NoneVal
                /\ (Stepped(t) /\ now.op = "get") =>
                    /\ sessions' = sessions
                    /\ now.ret = Found(sessions, now.sid)
                    /\ (now.sid \in DOMAIN sessions => now.ret[1].id = now.sid)
                    /\ now.raised = NoneVal
        /\ \A s \in DOMAIN sessions :
            IF s \in DOMAIN sessions'
            THEN sessions'[s] = sessions[s]
            ELSE \E t \in Threads :
                    /\ thread[t].pc = "del" /\ thread[t].sid = s
                    /\ thread'[t].op = "clear" /\ thread'[t].ret = Some(TRUE)
      ]_vars

C7_Witness ==
    /\ thread[1] = [ op |-> "create", pc |-> "done", sid |-> 2,
                     ret |-> Some([id |-> 2]), raised |-> NoneVal ]
    /\ thread[2] = [ op |-> "get", pc |-> "done", sid |-> 2,
                     ret |-> Some([id |-> 2]), raised |-> NoneVal ]
    /\ DOMAIN sessions = {1, 2}

====
